---------------------------- MODULE Spec2Model ----------------------------
(***************************************************************************)
(* A model of examples/patterns/async-patterns.py:                         *)
(*   - AsyncHTTPClient._request: one logical request with a retry loop and *)
(*     exponential backoff;                                                *)
(*   - fetch_multiple_urls: a batch of _request calls run under            *)
(*     asyncio.Semaphore and collected by asyncio.gather;                  *)
(*   - AsyncTaskManager: named background tasks with cancellation and a    *)
(*     completion callback.                                                *)
(* Spec is the batch, FairSpec adds the fairness of the event loop and of  *)
(* the transport, ContendedSpec is the batch with one permit fewer.        *)
(* TaskSpec is the task manager, FairTaskSpec adds the fairness of the     *)
(* event loop, WaitSpec adds a caller of wait_for_all and FairWaitSpec the *)
(* fairness of both.                                                       *)
(***************************************************************************)
EXTENDS Integers, Sequences, FiniteSets

\* ------------------------------------------------------------------ bounds
\* Longest url list handed to fetch_multiple_urls.
MaxUrls == 3
\* Initial value of the batch semaphore. The code uses 10 (line 93); the model
\* scales it down so that a batch of MaxUrls requests exceeds it.
SemaphoreValue == 2
\* Number of asyncio tasks AsyncTaskManager.start_task may create in a run.
MaxTasks == 2

\* -------------------------------------------------------- program constants
\* _request(..., retries: int = 3, ...)
Retries == 3

\* Task names handed to the task manager by its callers.
Names == {"t1", "t2"}
\* Status codes the transport may answer with: both sides of `status < 400`.
Statuses == {200, 400}
\* The timeout argument of wait_for_all: the default, and the one main passes.
Timeouts == {"None", "5"}
\* response.content_type values: the one line 65 tests for, and another.
ContentTypes == {"application/json", "text/plain"}

VARIABLES
    urls,            \* the argument of fetch_multiple_urls
    pc,              \* pc[i]: where unit i (fetch_with_semaphore for urls[i]) is
    attempt,         \* attempt[i]: the loop variable of _request
    last_exception,  \* last_exception[i]: the local of _request
    response,        \* response[i]: the response object of the attempt in flight
    calls,           \* calls[i]: session.request calls made so far by unit i
    waits,           \* waits[i]: the wait_time values unit i has slept, in order
    delivered,       \* delivered[i]: responses whose body was read, with their call
    outcome,         \* outcome[i]: what unit i returned or raised
    sem_value,       \* semaphore._value
    sem_waiters,     \* semaphore._waiters, oldest first
    doneOrder,       \* the units in the order they finished
    returned,        \* the value fetch_multiple_urls returned
    tasks,           \* AsyncTaskManager.tasks: name -> task
    tstate,          \* tstate[t]: state of asyncio task t
    tname,           \* tname[t]: the task_id the done callback of t captured
    must_cancel,     \* tasks on which task.cancel() returned True
    replacing,       \* tasks created by a start_task that found its name registered
    callbacks,       \* done callbacks scheduled on the loop, oldest first
    classified,      \* classified[t]: the outcomes _task_completed logged for t
    waiter,          \* the caller suspended in wait_for_all, if any
    lastCall         \* the manager call made by the last step, with its result

fetchVars == <<urls, pc, attempt, last_exception, response, calls, waits,
               delivered, outcome, sem_value, sem_waiters, doneOrder, returned>>
taskVars == <<tasks, tstate, tname, must_cancel, replacing, callbacks,
              classified, waiter, lastCall>>
vars == <<fetchVars, taskVars>>

\* ------------------------------------------------------------------ values
None == [type |-> "None"]

Units == 1..Len(urls)

\* APIResponse(status, data=None, error=None)
APIResponse(status, data, error) ==
    [type |-> "APIResponse", status |-> status, data |-> data, error |-> error]

\* The text of the body the transport serves for url u; every third url
\* serves the JSON text `null`.
BodyText(u) ==
    [type |-> "text", url |-> u, text |-> IF u % 3 = 0 THEN "null" ELSE "other"]

\* await response.json(): the parsed body; json.loads("null") is None.
Json(text) ==
    IF text.text = "null" THEN None ELSE [type |-> "json", url |-> text.url]

\* The content type the endpoint of url u serves: odd urls serve JSON.
ContentTypeOf(u) == IF u % 2 = 1 THEN "application/json" ELSE "text/plain"

\* The exception the transport raises on attempt a of the request for url u
\* (from session.request, line 63, or from reading the body, lines 65, 68).
Exc(u, a) == [type |-> "Exception", url |-> u, attempt |-> a]

\* str(e)
Str(e) == [type |-> "str", url |-> e.url, attempt |-> e.attempt]

\* A fault raised outside the try block of _request.
Escaped(u) == [type |-> "BaseException", url |-> u]


\* --------------------------------------------------------------- the batch
\* The state fetch_multiple_urls starts in, for a list of n urls and a
\* semaphore of k permits. Url i is named by its index, so that an outcome
\* tells which url it belongs to.
InitBatch(n, k) ==
    /\ urls = [i \in 1..n |-> i]
    /\ pc = [i \in 1..n |-> "created"]
    /\ attempt = [i \in 1..n |-> 0]
    /\ last_exception = [i \in 1..n |-> None]
    /\ response = [i \in 1..n |-> None]
    /\ calls = [i \in 1..n |-> 0]
    /\ waits = [i \in 1..n |-> <<>>]
    /\ delivered = [i \in 1..n |-> <<>>]
    /\ outcome = [i \in 1..n |-> None]
    /\ sem_value = k
    /\ sem_waiters = <<>>
    /\ doneOrder = <<>>
    /\ returned = None

\* fetch_multiple_urls(urls) for a list of n urls.
InitFetch(n) == InitBatch(n, SemaphoreValue)

\* asyncio.Semaphore.locked(): no permit left, or somebody already waits.
Locked == sem_value = 0 \/ sem_waiters # <<>>

\* gather wraps the coroutines in tasks in list order and the loop runs the
\* first step of each, in that order, before any transport event arrives.
AllStarted == \A j \in Units : pc[j] # "created"

\* WaitTime with the power written as a product.
WaitTimeLinear(a) == 2 * a

\* wait_time = 2 ** attempt
WaitTime(a) == 2 ^ a

\* ShouldRetry with the loop one pass short, as for range(retries).
ShouldRetryOneShort(a) == a < Retries - 1

\* if attempt < retries
ShouldRetry(a) == a < Retries

\* last_exception = e
LastException(old, e) == e

\* if response.status < 400
IsSuccess(status) == status < 400

\* The first pass of `for attempt in range(retries + 1)` up to the await of
\* session.request.
EnterRequest(i) ==
    /\ pc' = [pc EXCEPT ![i] = "calling"]
    /\ attempt' = [attempt EXCEPT ![i] = 0]
    /\ last_exception' = [last_exception EXCEPT ![i] = None]
    /\ calls' = [calls EXCEPT ![i] = @ + 1]

\* Leave with the permit handed to the waiter that arrived last.
LeaveWakingLast(i, out) ==
    /\ outcome' = [outcome EXCEPT ![i] = out]
    /\ doneOrder' = Append(doneOrder, i)
    /\ attempt' = [attempt EXCEPT ![i] = 0]
    /\ last_exception' = [last_exception EXCEPT ![i] = None]
    /\ response' = [response EXCEPT ![i] = None]
    /\ IF sem_waiters = <<>>
       THEN /\ sem_value' = sem_value + 1
            /\ sem_waiters' = sem_waiters
            /\ pc' = [pc EXCEPT ![i] = "done"]
       ELSE /\ sem_value' = sem_value
            /\ sem_waiters' = SubSeq(sem_waiters, 1, Len(sem_waiters) - 1)
            /\ pc' = [pc EXCEPT ![i] = "done",
                                ![sem_waiters[Len(sem_waiters)]] = "granted"]

\* Unit i leaves `async with semaphore` with `out` (returned or raised):
\* semaphore.release() hands the permit to the oldest waiter, or puts it back.
Leave(i, out) ==
    /\ outcome' = [outcome EXCEPT ![i] = out]
    /\ doneOrder' = Append(doneOrder, i)
    /\ attempt' = [attempt EXCEPT ![i] = 0]
    /\ last_exception' = [last_exception EXCEPT ![i] = None]
    /\ response' = [response EXCEPT ![i] = None]
    /\ IF sem_waiters = <<>>
       THEN /\ sem_value' = sem_value + 1
            /\ sem_waiters' = sem_waiters
            /\ pc' = [pc EXCEPT ![i] = "done"]
       ELSE /\ sem_value' = sem_value
            /\ sem_waiters' = Tail(sem_waiters)
            /\ pc' = [pc EXCEPT ![i] = "done", ![Head(sem_waiters)] = "granted"]

\* FetchWithSemaphore with client.get(url) called outside the semaphore.
FetchWithoutSemaphore(i) ==
    /\ pc[i] = "created"
    /\ \A j \in 1..(i - 1) : pc[j] # "created"
    /\ EnterRequest(i)
    /\ UNCHANGED <<urls, response, waits, delivered, outcome, sem_value,
                   sem_waiters, doneOrder, returned>>
    /\ UNCHANGED taskVars

\* The first step of fetch_with_semaphore(client, urls[i]): acquire, and with
\* a permit go on into client.get(url).
FetchWithSemaphore(i) ==
    /\ pc[i] = "created"
    /\ \A j \in 1..(i - 1) : pc[j] # "created"
    /\ IF ~Locked
       THEN /\ sem_value' = sem_value - 1
            /\ EnterRequest(i)
            /\ UNCHANGED sem_waiters
       ELSE /\ sem_waiters' = Append(sem_waiters, i)
            /\ pc' = [pc EXCEPT ![i] = "waiting"]
            /\ UNCHANGED <<sem_value, attempt, last_exception, calls>>
    /\ UNCHANGED <<urls, response, waits, delivered, outcome, doneOrder, returned>>
    /\ UNCHANGED taskVars

\* A unit that was handed a permit resumes after acquire().
Resume(i) ==
    /\ pc[i] = "granted"
    /\ EnterRequest(i)
    /\ UNCHANGED <<urls, response, waits, delivered, outcome, sem_value,
                   sem_waiters, doneOrder, returned>>
    /\ UNCHANGED taskVars

\* session.request answers: the response object with its status line and
\* headers (line 63); the body is not read yet.
RequestReturns(i, status) ==
    /\ AllStarted
    /\ pc[i] = "calling"
    /\ pc' = [pc EXCEPT ![i] = "reading"]
    /\ response' = [response EXCEPT ![i] =
                       [type |-> "ClientResponse", status |-> status,
                        content_type |-> ContentTypeOf(urls[i])]]
    /\ UNCHANGED <<urls, attempt, last_exception, calls, waits, delivered,
                   outcome, sem_value, sem_waiters, doneOrder, returned>>
    /\ UNCHANGED taskVars

\* HandleException for a unit that gives its permit back for the time of the
\* backoff wait.
HandleExceptionReleasing(i, e) ==
    IF ShouldRetry(attempt[i])
    THEN /\ last_exception' = [last_exception EXCEPT ![i] = LastException(@, e)]
         /\ waits' = [waits EXCEPT ![i] = Append(@, WaitTime(attempt[i]))]
         /\ response' = [response EXCEPT ![i] = None]
         /\ IF sem_waiters = <<>>
            THEN /\ sem_value' = sem_value + 1
                 /\ sem_waiters' = sem_waiters
                 /\ pc' = [pc EXCEPT ![i] = "sleeping"]
            ELSE /\ sem_value' = sem_value
                 /\ sem_waiters' = Tail(sem_waiters)
                 /\ pc' = [pc EXCEPT ![i] = "sleeping",
                                     ![Head(sem_waiters)] = "granted"]
         /\ UNCHANGED <<attempt, outcome, doneOrder>>
    ELSE /\ Leave(i, APIResponse(0, None,
                                 Str(LastException(last_exception[i], e))))
         /\ UNCHANGED waits

\* except Exception as e (lines 71-78), and line 80 once the loop is over.
HandleException(i, e) ==
    IF ShouldRetry(attempt[i])
    THEN /\ last_exception' = [last_exception EXCEPT ![i] = LastException(@, e)]
         /\ waits' = [waits EXCEPT ![i] = Append(@, WaitTime(attempt[i]))]
         /\ pc' = [pc EXCEPT ![i] = "sleeping"]
         /\ response' = [response EXCEPT ![i] = None]
         /\ UNCHANGED <<attempt, outcome, sem_value, sem_waiters, doneOrder>>
    ELSE /\ Leave(i, APIResponse(0, None,
                                 Str(LastException(last_exception[i], e))))
         /\ UNCHANGED waits

\* session.request raises (connection error, timeout, ...).
RequestRaises(i) ==
    /\ AllStarted
    /\ pc[i] = "calling"
    /\ HandleException(i, Exc(urls[i], attempt[i]))
    /\ UNCHANGED <<urls, calls, delivered, returned>>
    /\ UNCHANGED taskVars

\* AcceptResponse with the description of the last fault, if there was one,
\* put into the error field.
AcceptWithLastError(i, body) ==
    /\ Leave(i, APIResponse(response[i].status,
                            IF response[i].content_type = "application/json"
                            THEN Json(body) ELSE body,
                            IF last_exception[i] = None
                            THEN None ELSE Str(last_exception[i])))
    /\ UNCHANGED waits

\* data = await response.json() if ... else await response.text()
\* return APIResponse(status=response.status, data=data)
AcceptResponse(i, body) ==
    /\ Leave(i, APIResponse(response[i].status,
                            IF response[i].content_type = "application/json"
                            THEN Json(body) ELSE body,
                            None))
    /\ UNCHANGED waits

\* RejectResponse with the error status raised as an exception inside the
\* try block, as response.raise_for_status() would.
RejectRetried(i, body) ==
    HandleException(i, Exc(urls[i], attempt[i]))

\* error_text = await response.text()
\* return APIResponse(status=response.status, error=error_text)
RejectResponse(i, body) ==
    /\ Leave(i, APIResponse(response[i].status, None, body))
    /\ UNCHANGED waits

\* await response.json() / await response.text() returns (lines 65 and 68).
BodyRead(i) ==
    /\ pc[i] = "reading"
    /\ LET body == BodyText(urls[i]) IN
       /\ delivered' = [delivered EXCEPT ![i] =
                           Append(@, [call |-> calls[i],
                                      status |-> response[i].status,
                                      content_type |-> response[i].content_type,
                                      body |-> body])]
       /\ IF IsSuccess(response[i].status)
          THEN AcceptResponse(i, body)
          ELSE RejectResponse(i, body)
    /\ UNCHANGED <<urls, calls, returned>>
    /\ UNCHANGED taskVars

\* BodyRaises with the body read outside the try block: the fault leaves
\* _request.
BodyRaisesUncaught(i) ==
    /\ pc[i] = "reading"
    /\ Leave(i, Escaped(urls[i]))
    /\ UNCHANGED <<urls, calls, waits, delivered, returned>>
    /\ UNCHANGED taskVars

\* Reading the body raises (lines 65 and 68 are inside the try block).
BodyRaises(i) ==
    /\ pc[i] = "reading"
    /\ HandleException(i, Exc(urls[i], attempt[i]))
    /\ UNCHANGED <<urls, calls, delivered, returned>>
    /\ UNCHANGED taskVars

\* await asyncio.sleep(wait_time) returns: the next pass of the loop.
SleepReturns(i) ==
    /\ pc[i] = "sleeping"
    /\ pc' = [pc EXCEPT ![i] = "calling"]
    /\ attempt' = [attempt EXCEPT ![i] = @ + 1]
    /\ calls' = [calls EXCEPT ![i] = @ + 1]
    /\ UNCHANGED <<urls, last_exception, response, waits, delivered, outcome,
                   sem_value, sem_waiters, doneOrder, returned>>
    /\ UNCHANGED taskVars

\* HandlerRaises for a semaphore taken with acquire() and given back with a
\* plain release() after client.get, instead of `async with`: the fault
\* skips the release.
HandlerRaisesKeepingPermit(i) ==
    /\ pc[i] = "sleeping"
    /\ pc' = [pc EXCEPT ![i] = "done"]
    /\ outcome' = [outcome EXCEPT ![i] = Escaped(urls[i])]
    /\ doneOrder' = Append(doneOrder, i)
    /\ attempt' = [attempt EXCEPT ![i] = 0]
    /\ last_exception' = [last_exception EXCEPT ![i] = None]
    /\ response' = [response EXCEPT ![i] = None]
    /\ UNCHANGED <<urls, calls, waits, delivered, returned, sem_value, sem_waiters>>
    /\ UNCHANGED taskVars

\* A fault inside the except block (line 76 is an await outside any try of
\* _request): it leaves _request, get and fetch_with_semaphore.
HandlerRaises(i) ==
    /\ pc[i] = "sleeping"
    /\ Leave(i, Escaped(urls[i]))
    /\ UNCHANGED <<urls, calls, waits, delivered, returned>>
    /\ UNCHANGED taskVars

\* GatherResults with the outcomes in the order the units finished.
GatherAsCompleted == [k \in 1..Len(doneOrder) |-> outcome[doneOrder[k]]]

\* The list asyncio.gather(*tasks, return_exceptions=True) builds: the
\* outcome of each awaitable at the position of the awaitable.
GatherResults == [i \in 1..Len(urls) |-> outcome[i]]

\* return await asyncio.gather(...): all units are done.
GatherReturns ==
    /\ returned = None
    /\ \A i \in Units : pc[i] = "done"
    /\ returned' = [type |-> "list", items |-> GatherResults]
    /\ UNCHANGED <<urls, pc, attempt, last_exception, response, calls, waits,
                   delivered, outcome, sem_value, sem_waiters, doneOrder>>
    /\ UNCHANGED taskVars

NextFetch ==
    \/ \E i \in Units : FetchWithSemaphore(i)
    \/ \E i \in Units : Resume(i)
    \/ \E i \in Units, s \in Statuses : RequestReturns(i, s)
    \/ \E i \in Units : RequestRaises(i)
    \/ \E i \in Units : BodyRead(i)
    \/ \E i \in Units : BodyRaises(i)
    \/ \E i \in Units : SleepReturns(i)
    \/ \E i \in Units : HandlerRaises(i)
    \/ GatherReturns

\* ------------------------------------------------------- the task manager
TaskIds == 1..MaxTasks

\* The states in which task.done() is true.
Terminal == {"completed", "failed", "cancelled"}

\* task.done()
Done(t) == tstate[t] \in Terminal

\* The record of a manager call: its name, its task_id and what it returned.
Call(op, name, ret) == [op |-> op, name |-> name, ret |-> ret]

\* No manager call was made by the last step.
NoCall == Call("none", "none", "None")

\* No caller is suspended in wait_for_all.
NoWaiter == [snapshot |-> {}, timeout |-> "idle"]

\* AsyncTaskManager.__init__
InitTasks ==
    /\ tasks = [n \in {} |-> 0]
    /\ tstate = [t \in TaskIds |-> "unborn"]
    /\ tname = [t \in TaskIds |-> "none"]
    /\ must_cancel = {}
    /\ replacing = {}
    /\ callbacks = <<>>
    /\ classified = [t \in TaskIds |-> <<>>]
    /\ waiter = NoWaiter
    /\ lastCall = NoCall

Init == (\E n \in 0..MaxUrls : InitFetch(n)) /\ InitTasks

Spec == Init /\ [][NextFetch]_vars

\* The batch with one permit fewer, so that MaxUrls requests leave more than
\* one unit blocked in acquire.
ContendedInit ==
    (\E n \in 0..MaxUrls : InitBatch(n, SemaphoreValue - 1)) /\ InitTasks

ContendedSpec == ContendedInit /\ [][NextFetch]_vars

\* The batch on a loop that runs every ready callback, with a transport that
\* answers or fails every call and every body read in finite time, and with
\* sleeps that end.
FairSpec ==
    /\ Spec
    /\ \A i \in 1..MaxUrls :
          /\ WF_vars(i \in Units /\ FetchWithSemaphore(i))
          /\ WF_vars(i \in Units /\ Resume(i))
          /\ WF_vars(/\ i \in Units
                     /\ \/ \E s \in Statuses : RequestReturns(i, s)
                        \/ RequestRaises(i))
          /\ WF_vars(i \in Units /\ (BodyRead(i) \/ BodyRaises(i)))
          /\ WF_vars(i \in Units /\ (SleepReturns(i) \/ HandlerRaises(i)))
    /\ WF_vars(GatherReturns)

\* CanCancel without the test of task.done().
CanCancelIgnoringDone(ts, name) == name \in DOMAIN ts

\* cancel_task: `task_id in self.tasks` and `not task.done()`, on mapping ts.
CanCancel(ts, name) == name \in DOMAIN ts /\ ~Done(ts[name])

\* CancelEffect with the call of task.cancel() left out.
CancelEffectNone(mc, ts, name) == mc

\* cancel_task(name) on mapping ts: the tasks with a cancellation requested,
\* given those (mc) that had one before.
CancelEffect(mc, ts, name) ==
    IF CanCancel(ts, name) THEN mc \cup {ts[name]} ELSE mc

\* The task asyncio.create_task returns: the next unused one.
NewTask == CHOOSE t \in TaskIds :
               tstate[t] = "unborn" /\ \A u \in 1..(t - 1) : tstate[u] # "unborn"

\* self.tasks[task_id] = task
Register(ts, name, t) == [n \in DOMAIN ts \cup {name} |-> IF n = name THEN t ELSE ts[n]]

\* del self.tasks[task_id]
Unregister(ts, name) == [n \in DOMAIN ts \ {name} |-> ts[n]]

\* StartTask with the new task registered before the old one is cancelled.
StartTaskRegisterFirst(name) ==
    /\ \E t \in TaskIds : tstate[t] = "unborn"
    /\ LET t == NewTask IN
       /\ tstate' = [tstate EXCEPT ![t] = "scheduled"]
       /\ tname' = [tname EXCEPT ![t] = name]
       /\ tasks' = Register(tasks, name, t)
       /\ must_cancel' = IF name \in DOMAIN tasks
                         THEN must_cancel \cup {t}
                         ELSE must_cancel
       /\ replacing' = IF name \in DOMAIN tasks THEN replacing \cup {t} ELSE replacing
    /\ lastCall' = Call("start_task", name, "None")
    /\ UNCHANGED <<callbacks, classified, waiter>>
    /\ UNCHANGED fetchVars

\* start_task(name, coro): cancel_task(name) if the name is registered, then
\* create the task, add its done callback and register it.
StartTask(name) ==
    /\ \E t \in TaskIds : tstate[t] = "unborn"
    /\ LET t == NewTask IN
       /\ must_cancel' = IF name \in DOMAIN tasks
                         THEN CancelEffect(must_cancel, tasks, name)
                         ELSE must_cancel
       /\ tstate' = [tstate EXCEPT ![t] = "scheduled"]
       /\ tname' = [tname EXCEPT ![t] = name]
       /\ tasks' = Register(tasks, name, t)
       /\ replacing' = IF name \in DOMAIN tasks THEN replacing \cup {t} ELSE replacing
    /\ lastCall' = Call("start_task", name, "None")
    /\ UNCHANGED <<callbacks, classified, waiter>>
    /\ UNCHANGED fetchVars

\* cancel_task(name) -> bool
CancelTask(name) ==
    /\ must_cancel' = CancelEffect(must_cancel, tasks, name)
    /\ lastCall' = Call("cancel_task", name,
                        IF CanCancel(tasks, name) THEN "True" ELSE "False")
    /\ UNCHANGED <<tasks, tstate, tname, replacing, callbacks, classified, waiter>>
    /\ UNCHANGED fetchVars

\* CancelAll that stops after the first name for which cancel_task returned
\* True.
CancelAllStopsAtFirst ==
    /\ must_cancel' =
          IF \E m \in DOMAIN tasks : CanCancel(tasks, m)
          THEN must_cancel \cup
                   {tasks[CHOOSE m \in DOMAIN tasks : CanCancel(tasks, m)]}
          ELSE must_cancel
    /\ lastCall' = Call("cancel_all", "none", "None")
    /\ UNCHANGED <<tasks, tstate, tname, replacing, callbacks, classified, waiter>>
    /\ UNCHANGED fetchVars

\* cancel_all(): cancel_task for every name of list(self.tasks.keys()).
CancelAll ==
    /\ must_cancel' = must_cancel \cup
                          {tasks[n] : n \in {m \in DOMAIN tasks : CanCancel(tasks, m)}}
    /\ lastCall' = Call("cancel_all", "none", "None")
    /\ UNCHANGED <<tasks, tstate, tname, replacing, callbacks, classified, waiter>>
    /\ UNCHANGED fetchVars

\* The loop runs the first step of task t: its coroutine reaches an await.
TaskRuns(t) ==
    /\ tstate[t] = "scheduled"
    /\ t \notin must_cancel
    /\ tstate' = [tstate EXCEPT ![t] = "running"]
    /\ lastCall' = NoCall
    /\ UNCHANGED <<tasks, tname, must_cancel, replacing, callbacks, classified, waiter>>
    /\ UNCHANGED fetchVars

\* Task t ends in state `how`; the loop schedules its done callback, the
\* lambda of start_task.
TaskEnds(t, how) ==
    /\ tstate' = [tstate EXCEPT ![t] = how]
    /\ callbacks' = Append(callbacks, t)
    /\ lastCall' = NoCall
    /\ UNCHANGED <<tasks, tname, must_cancel, replacing, classified, waiter>>
    /\ UNCHANGED fetchVars

\* The coroutine of task t returns.
TaskReturns(t) ==
    /\ tstate[t] \in {"scheduled", "running"}
    /\ t \notin must_cancel
    /\ TaskEnds(t, "completed")

\* The coroutine of task t raises an exception.
TaskRaises(t) ==
    /\ tstate[t] \in {"scheduled", "running"}
    /\ t \notin must_cancel
    /\ TaskEnds(t, "failed")

\* The loop throws CancelledError into task t at its next step, and the
\* coroutine lets it through.
TaskCancelled(t) ==
    /\ tstate[t] \in {"scheduled", "running"}
    /\ t \in must_cancel
    /\ TaskEnds(t, "cancelled")

\* Classify without the test of task.cancelled().
ClassifyNoCancelled(t) ==
    IF tstate[t] = "failed" THEN "Failed" ELSE "Completed"

\* The branch of _task_completed that logs the outcome of task t.
Classify(t) ==
    IF tstate[t] = "cancelled" THEN "Cancelled"
    ELSE IF tstate[t] = "failed" THEN "Failed"
    ELSE "Completed"

\* _task_completed(task_id, task), called by the loop for the oldest
\* scheduled done callback.
TaskCompleted ==
    /\ callbacks # <<>>
    /\ LET t == Head(callbacks) IN
       /\ tasks' = IF tname[t] \in DOMAIN tasks
                   THEN Unregister(tasks, tname[t])
                   ELSE tasks
       /\ classified' = [classified EXCEPT ![t] = Append(@, Classify(t))]
    /\ callbacks' = Tail(callbacks)
    /\ lastCall' = NoCall
    /\ UNCHANGED <<tstate, tname, must_cancel, replacing, waiter>>
    /\ UNCHANGED fetchVars

\* WaitForAll without the test `if self.tasks`.
WaitForAllUnguarded(timeout) ==
    /\ waiter = NoWaiter
    /\ lastCall' = Call("wait_for_all", "none", "suspended")
    /\ waiter' = [snapshot |-> {tasks[n] : n \in DOMAIN tasks},
                  timeout |-> timeout]
    /\ UNCHANGED <<tasks, tstate, tname, must_cancel, replacing, callbacks, classified>>
    /\ UNCHANGED fetchVars

\* wait_for_all(timeout) is called: with no task registered it returns at
\* once, otherwise asyncio.wait takes the set of the registered tasks.
WaitForAll(timeout) ==
    /\ waiter = NoWaiter
    /\ IF DOMAIN tasks = {}
       THEN /\ lastCall' = Call("wait_for_all", "none", "returned")
            /\ UNCHANGED waiter
       ELSE /\ lastCall' = Call("wait_for_all", "none", "suspended")
            /\ waiter' = [snapshot |-> {tasks[n] : n \in DOMAIN tasks},
                          timeout |-> timeout]
    /\ UNCHANGED <<tasks, tstate, tname, must_cancel, replacing, callbacks, classified>>
    /\ UNCHANGED fetchVars

\* asyncio.wait returns because every task of its set is done; its own done
\* callbacks were added after those of start_task, which have run by then.
WaitReturns ==
    /\ waiter # NoWaiter
    /\ \A t \in waiter.snapshot :
          Done(t) /\ \A k \in 1..Len(callbacks) : callbacks[k] # t
    /\ waiter' = NoWaiter
    /\ lastCall' = Call("wait_for_all", "none", "all done")
    /\ UNCHANGED <<tasks, tstate, tname, must_cancel, replacing, callbacks, classified>>
    /\ UNCHANGED fetchVars

\* TimeoutEffect for a wait that cancels what is still pending, as
\* asyncio.wait_for does.
TimeoutEffectCancelling(mc, pending) == mc \cup pending

\* What the timeout of asyncio.wait does to the tasks still pending, given
\* those (mc) that have a cancellation requested: nothing.
TimeoutEffect(mc, pending) == mc

\* The timeout of asyncio.wait elapses with a task of its set not done.
WaitTimesOut ==
    /\ waiter # NoWaiter
    /\ waiter.timeout # "None"
    /\ \E t \in waiter.snapshot : ~Done(t)
    /\ must_cancel' = TimeoutEffect(must_cancel, {t \in waiter.snapshot : ~Done(t)})
    /\ waiter' = NoWaiter
    /\ lastCall' = Call("wait_for_all", "none", "timeout")
    /\ UNCHANGED <<tasks, tstate, tname, replacing, callbacks, classified>>
    /\ UNCHANGED fetchVars

NextTask ==
    \/ \E n \in Names : StartTask(n)
    \/ \E n \in Names : CancelTask(n)
    \/ CancelAll
    \/ \E t \in TaskIds : TaskRuns(t)
    \/ \E t \in TaskIds : TaskReturns(t)
    \/ \E t \in TaskIds : TaskRaises(t)
    \/ \E t \in TaskIds : TaskCancelled(t)
    \/ TaskCompleted

\* The task manager with a caller of wait_for_all.
NextWait ==
    \/ NextTask
    \/ \E to \in Timeouts : WaitForAll(to)
    \/ WaitReturns
    \/ WaitTimesOut

\* The task manager alone: no batch is run.
InitTaskSpec == InitFetch(0) /\ InitTasks

TaskSpec == InitTaskSpec /\ [][NextTask]_vars

WaitSpec == InitTaskSpec /\ [][NextWait]_vars

\* The event loop with a caller of wait_for_all: besides the ready callbacks
\* it resumes the caller once asyncio.wait has its result, and the timer of
\* the timeout fires when its time has come.
FairWaitSpec ==
    /\ WaitSpec
    /\ \A t \in TaskIds : WF_vars(TaskCancelled(t))
    /\ WF_vars(TaskCompleted)
    /\ WF_vars(WaitReturns)
    /\ WF_vars(WaitTimesOut)

\* The event loop runs every callback that is ready: a task with a pending
\* cancellation gets its next step, a scheduled done callback is called.
FairTaskSpec ==
    /\ TaskSpec
    /\ \A t \in TaskIds : WF_vars(TaskCancelled(t))
    /\ WF_vars(TaskCompleted)

\* ------------------------------------------------- properties of the batch
\* An outcome (an APIResponse, or an exception a unit raised) names its url,
\* unless it is an APIResponse with neither data nor error.
HasUrl(out) ==
    out.type = "APIResponse" => (out.data # None \/ out.error # None)

\* The url an outcome that names one is about.
UrlOf(out) ==
    IF out.type = "APIResponse"
    THEN IF out.data # None THEN out.data.url ELSE out.error.url
    ELSE out.url

\* The units that are inside session.request or reading its response.
InTransport == {i \in Units : pc[i] \in {"calling", "reading"}}

\* The units that hold a permit of the semaphore.
Holding == {i \in Units : pc[i] \in {"granted", "calling", "reading", "sleeping"}}

\* C1: for a list of N >= 0 urls fetch_multiple_urls returns exactly N
\* results, and the i-th is the outcome of the i-th url, whatever order the
\* units finished in and also when a url failed on every attempt.
C1_ResultsInInputOrder ==
    returned # None =>
        /\ Len(returned.items) = Len(urls)
        /\ \A i \in Units :
              /\ returned.items[i] = outcome[i]
              /\ HasUrl(returned.items[i]) => UrlOf(returned.items[i]) = urls[i]

\* A full batch has returned, its units finished out of input order and one
\* of them failed on every attempt.
C1_Witness ==
    /\ returned # None
    /\ Len(urls) = MaxUrls
    /\ doneOrder # [i \in 1..Len(urls) |-> i]
    /\ \E i \in Units : /\ returned.items[i].type = "APIResponse"
                        /\ returned.items[i].status = 0

\* C2: at most SemaphoreValue units are in the transport-calling phase at any
\* time; a further unit is blocked in acquire, having made no transport call,
\* for as long as every permit is out.
C2_AtMostKInTransport ==
    /\ Cardinality(InTransport) <= SemaphoreValue
    /\ Cardinality(Holding) + sem_value = SemaphoreValue
    /\ \A i \in Units :
          pc[i] = "waiting" =>
              /\ calls[i] = 0
              /\ sem_value = 0
              /\ Cardinality(Holding) = SemaphoreValue

\* As many units as there are permits are calling the transport while another
\* unit is blocked in acquire.
C2_Witness ==
    /\ Cardinality(InTransport) = SemaphoreValue
    /\ \E i \in Units : pc[i] = "waiting"

\* C3: once the transport has answered a request with a status >= 400 (the
\* response with its body), _request makes no further attempt: that call is
\* its last, no wait follows it, and the APIResponse returned has that status
\* and the body as its error.
C3_ErrorStatusNotRetried ==
    \A i \in Units :
        \A k \in 1..Len(delivered[i]) :
            delivered[i][k].status >= 400 =>
                /\ pc[i] = "done"
                /\ Len(delivered[i]) = 1
                /\ calls[i] = delivered[i][k].call
                /\ Len(waits[i]) = delivered[i][k].call - 1
                /\ outcome[i] = APIResponse(delivered[i][k].status, None,
                                            delivered[i][k].body)

\* A request was answered 400 on its first call and on a later call.
C3_Witness ==
    /\ \E i \in Units : /\ pc[i] = "done"
                        /\ outcome[i].type = "APIResponse"
                        /\ outcome[i].status = 400
                        /\ outcome[i].error = BodyText(urls[i])
                        /\ calls[i] = 1
    /\ \E i \in Units : /\ pc[i] = "done"
                        /\ outcome[i].type = "APIResponse"
                        /\ outcome[i].status = 400
                        /\ calls[i] > 1

\* C4: a request whose every attempt failed at the transport makes exactly
\* Retries + 1 transport calls and returns status 0 with the description of
\* the last exception as its error; status 0 is returned in no other way.
C4_ExhaustedAfterAllAttempts ==
    \A i \in Units :
        (pc[i] = "done" /\ outcome[i].type = "APIResponse") =>
            /\ delivered[i] = <<>> =>
                  /\ calls[i] = Retries + 1
                  /\ outcome[i] = APIResponse(0, None, Str(Exc(urls[i], Retries)))
            /\ outcome[i].status = 0 =>
                  /\ delivered[i] = <<>>
                  /\ calls[i] = Retries + 1

\* A request has returned status 0 after four calls.
C4_Witness ==
    \E i \in Units : /\ pc[i] = "done"
                     /\ outcome[i].type = "APIResponse"
                     /\ outcome[i].status = 0
                     /\ calls[i] = 4

\* C5: the waits of a request are 1, 2, 4 in this order (the wait after the
\* failed attempt a is 2^a whatever the unit and the failure), and a wait is
\* made only between two attempts: none before the first call, none after
\* the last one.
C5_BackoffSchedule ==
    \A i \in Units :
        /\ waits[i] = SubSeq(<<1, 2, 4>>, 1, Len(waits[i]))
        /\ pc[i] \in {"created", "waiting", "granted"} =>
              calls[i] = 0 /\ waits[i] = <<>>
        /\ pc[i] \in {"calling", "reading"} => Len(waits[i]) = calls[i] - 1
        /\ pc[i] = "sleeping" => Len(waits[i]) = calls[i] /\ calls[i] <= Retries
        /\ (pc[i] = "done" /\ outcome[i].type = "APIResponse") =>
              Len(waits[i]) = calls[i] - 1

\* A request has waited 1, 2 and 4 and has made its last attempt.
C5_Witness ==
    \E i \in Units : /\ pc[i] = "done"
                     /\ waits[i] = <<1, 2, 4>>
                     /\ calls[i] = Retries + 1

\* C6: every element of the returned list is an APIResponse; a unit whose
\* fault escaped _request is represented by one with status 0.
C6_EveryResultIsResponse ==
    returned # None =>
        \A i \in Units :
            /\ returned.items[i].type = "APIResponse"
            /\ outcome[i].type # "APIResponse" => returned.items[i].status = 0

\* C13: no behaviour of the transport makes _request raise. A call that
\* session.request or the reading of a body has ended has returned an
\* APIResponse: with the status of the response whose body was read, or with
\* status 0 and the description of the fault of the last attempt. A call
\* that ended otherwise ended in the middle of a backoff wait, with no
\* transport call in flight.
C13_NoTransportFaultEscapes ==
    \A i \in Units :
        /\ pc[i] # "done" => outcome[i] = None
        /\ pc[i] = "done" =>
              /\ outcome[i].type # "APIResponse" => Len(waits[i]) = calls[i]
              /\ outcome[i].type = "APIResponse" =>
                    /\ Len(waits[i]) = calls[i] - 1
                    /\ delivered[i] # <<>> =>
                          outcome[i].status = delivered[i][Len(delivered[i])].status
                    /\ delivered[i] = <<>> =>
                          /\ outcome[i].status = 0
                          /\ outcome[i].error = Str(Exc(urls[i], calls[i] - 1))

\* Three requests have returned: one answered 200, one answered 400 on a
\* retry, and one whose every attempt ended in a fault.
C13_Witness ==
    /\ \E i \in Units : pc[i] = "done" /\ outcome[i].type = "APIResponse"
                        /\ outcome[i].status = 200
    /\ \E i \in Units : pc[i] = "done" /\ outcome[i].type = "APIResponse"
                        /\ outcome[i].status = 400 /\ calls[i] > 1
    /\ \E i \in Units : pc[i] = "done" /\ outcome[i].type = "APIResponse"
                        /\ outcome[i].status = 0
                        /\ calls[i] = Retries + 1

\* C14: an APIResponse returned by _request has exactly one of data and
\* error set: data only with a status below 400 (and not 0), error only with
\* a status of 400 or more or with status 0; and status 0 is returned only
\* when no attempt got a response from the transport.
C14_ExactlyOneOfDataAndError ==
    \A i \in Units :
        (pc[i] = "done" /\ outcome[i].type = "APIResponse") =>
            /\ (outcome[i].data # None) # (outcome[i].error # None)
            /\ outcome[i].data # None =>
                  outcome[i].status < 400 /\ outcome[i].status # 0
            /\ outcome[i].error # None =>
                  outcome[i].status >= 400 \/ outcome[i].status = 0
            /\ outcome[i].status = 0 => delivered[i] = <<>>

\* The payload of a delivered response d, decoded by its content type.
Decoded(d) ==
    IF d.content_type = "application/json" THEN Json(d.body) ELSE d.body

\* C16: a request whose first k calls failed (k <= Retries) and whose call
\* k + 1 was answered with a status below 400 has made exactly k + 1 calls,
\* has waited 1, 2, .. 2^(k-1) in this order, and has returned the
\* APIResponse of that status with the decoded body as data and no error:
\* nothing in it tells of the earlier faults.
C16_SuccessAfterFaults ==
    \A i \in Units :
        \A n \in 1..Len(delivered[i]) :
            delivered[i][n].status < 400 =>
                LET d == delivered[i][n]
                    k == d.call - 1
                IN  /\ k <= Retries
                    /\ pc[i] = "done"
                    /\ calls[i] = k + 1
                    /\ waits[i] = [a \in 1..k |-> 2 ^ (a - 1)]
                    /\ outcome[i] = APIResponse(d.status, Decoded(d), None)

\* A request has returned 200 with a payload from its last allowed call,
\* after Retries faults.
C16_Witness ==
    \E i \in Units : /\ pc[i] = "done"
                     /\ calls[i] = Retries + 1
                     /\ waits[i] = <<1, 2, 4>>
                     /\ outcome[i].type = "APIResponse"
                     /\ outcome[i].status = 200
                     /\ outcome[i].data # None

\* C18: the units blocked in acquire are queued in the order they arrived
\* (the order of the url list, in which gather starts them), and a permit
\* goes to the one that has waited longest: no unit has been admitted while
\* a unit that arrived before it still waits.
C18_PermitsInArrivalOrder ==
    /\ \A k \in 1..Len(sem_waiters) : pc[sem_waiters[k]] = "waiting"
    /\ \A k, l \in 1..Len(sem_waiters) :
          k < l => sem_waiters[k] < sem_waiters[l]
    /\ \A i \in Units :
          pc[i] = "waiting" =>
              /\ \E k \in 1..Len(sem_waiters) : sem_waiters[k] = i
              /\ \A j \in Units : j > i => pc[j] \in {"created", "waiting"}

\* Two units were blocked in acquire; the first of them has been handed a
\* permit by a release and the second still waits.
C18_Witness ==
    /\ Len(urls) > SemaphoreValue
    /\ pc[SemaphoreValue] \in {"granted", "calling"}
    /\ calls[SemaphoreValue] <= 1
    /\ pc[SemaphoreValue + 1] = "waiting"
    /\ doneOrder # <<>>

\* The units between their first attempt and the end of their _request call.
InRequest == {i \in Units : pc[i] \in {"calling", "reading", "sleeping"}}

\* The units in a backoff wait.
InBackoff == {i \in Units : pc[i] = "sleeping"}

\* C19: a unit keeps its permit from acquire to the end of its _request
\* call, backoff waits included: the permits out are those of the units in
\* a request and of the units just handed one, at most SemaphoreValue units
\* are in a request, and while SemaphoreValue units are in a backoff wait no
\* permit is left and every other unit is done or has made no attempt yet.
C19_PermitHeldThroughBackoff ==
    /\ Cardinality(InRequest) <= SemaphoreValue
    /\ sem_value = SemaphoreValue - Cardinality(InRequest)
                       - Cardinality({i \in Units : pc[i] = "granted"})
    /\ Cardinality(InBackoff) = SemaphoreValue =>
          /\ sem_value = 0
          /\ \A j \in Units \ InBackoff :
                \/ pc[j] = "done"
                \/ pc[j] \in {"created", "waiting"} /\ calls[j] = 0

\* As many units as there are permits are in a backoff wait, after their
\* second fault, while another unit is blocked in acquire.
C19_Witness ==
    /\ Cardinality(InBackoff) = SemaphoreValue
    /\ \A i \in InBackoff : Len(waits[i]) = 2
    /\ \E j \in Units : pc[j] = "waiting"

\* ------------------------------------------ properties of the task manager
\* The tasks the live mapping holds.
Registered == {tasks[n] : n \in DOMAIN tasks}

\* Task t is the last one started under its name.
Latest(t) == \A u \in TaskIds : u > t => tname[u] # tname[t]

\* C7: a task that start_task created in place of a registered one is held
\* by the live mapping under its name for as long as it has not reached a
\* terminal state (and no later start_task has replaced it in turn).
C7_ReplacementStaysRegistered ==
    \A t \in replacing :
        (~Done(t) /\ Latest(t)) =>
            /\ tname[t] \in DOMAIN tasks
            /\ tasks[tname[t]] = t

\* C8: a start_task(n, ...) that finds under n a task that has not run yet
\* requests the cancellation of that task and registers a new task of its
\* own, on which no cancellation is requested; the first task ends Cancelled.
C8_CancelThenReplace ==
    /\ [][\A n \in Names :
            (/\ n \in DOMAIN tasks
             /\ tstate[tasks[n]] = "scheduled"
             /\ lastCall'.op = "start_task"
             /\ lastCall'.name = n) =>
                /\ tasks[n] \in must_cancel'
                /\ tasks'[n] # tasks[n]
                /\ tstate[tasks'[n]] = "unborn"
                /\ tstate'[tasks'[n]] = "scheduled"
                /\ tasks'[n] \notin must_cancel'
                /\ tstate'[tasks[n]] = "scheduled"]_vars
    /\ \A t \in TaskIds :
          [](t \in must_cancel => tstate[t] \notin {"completed", "failed"})
    /\ \A t \in TaskIds :
          (t \in must_cancel /\ tstate[t] = "scheduled") ~> (tstate[t] = "cancelled")

\* Two start_task calls in a row under one name: the first task, which has
\* not run, has its cancellation requested and the second is registered.
C8_Witness ==
    /\ lastCall.op = "start_task"
    /\ lastCall.name \in DOMAIN tasks
    /\ tasks[lastCall.name] \in replacing
    /\ tasks[lastCall.name] \notin must_cancel
    /\ \E t \in must_cancel : /\ tname[t] = lastCall.name
                              /\ tstate[t] = "scheduled"

\* C9: cancel_task(n) returns True exactly when n is registered and its task
\* is not in a terminal state, and then requests the cancellation of that
\* task; otherwise it returns False and requests nothing. It changes nothing
\* else.
C9_CancelReturnsWhetherRequested ==
    [][\A n \in Names :
          (lastCall'.op = "cancel_task" /\ lastCall'.name = n) =>
              /\ (n \in DOMAIN tasks /\ tstate[tasks[n]] \notin Terminal) =>
                    /\ lastCall'.ret = "True"
                    /\ must_cancel' = must_cancel \cup {tasks[n]}
              /\ ~(n \in DOMAIN tasks /\ tstate[tasks[n]] \notin Terminal) =>
                    /\ lastCall'.ret = "False"
                    /\ must_cancel' = must_cancel
              /\ UNCHANGED <<tasks, tstate, callbacks, classified>>]_vars

\* cancel_task has returned False for a task that has just completed: it is
\* done and still registered, its done callback has not run yet.
C9_Witness ==
    /\ lastCall.op = "cancel_task"
    /\ lastCall.ret = "False"
    /\ lastCall.name \in DOMAIN tasks
    /\ tstate[tasks[lastCall.name]] = "completed"
    /\ tasks[lastCall.name] \notin must_cancel

\* cancel_task(n) has just returned True for task t, which was running.
CancelledRunning(t) ==
    /\ lastCall.op = "cancel_task"
    /\ lastCall.ret = "True"
    /\ lastCall.name \in DOMAIN tasks
    /\ tasks[lastCall.name] = t
    /\ tstate[t] = "running"

\* C10: a running task for which cancel_task returned True eventually is in
\* the Cancelled state, out of the live mapping and logged as cancelled.
C10_CancelledEventually ==
    \A t \in TaskIds :
        CancelledRunning(t) ~>
            (/\ tstate[t] = "cancelled"
             /\ t \notin Registered
             /\ classified[t] = <<"Cancelled">>)

\* cancel_task has returned True for a task that is running.
C10_Witness ==
    \E t \in TaskIds : CancelledRunning(t) /\ t \in must_cancel

\* C11: a wait_for_all call that finds no task registered returns at once;
\* otherwise it waits for the tasks registered at the call, and it returns
\* only when all of them are done or a timeout was given. A call with a
\* timeout returns even if a task never completes, and a call whose tasks
\* are all done returns.
C11_WaitForAllReturns ==
    /\ [][(waiter = NoWaiter /\ lastCall'.op = "wait_for_all") =>
             IF DOMAIN tasks = {}
             THEN lastCall'.ret = "returned" /\ waiter' = NoWaiter
             ELSE /\ lastCall'.ret = "suspended"
                  /\ waiter'.snapshot = Registered]_vars
    /\ [][(waiter # NoWaiter /\ waiter' = NoWaiter) =>
             \/ \A t \in waiter.snapshot : Done(t)
             \/ waiter.timeout # "None"]_vars
    /\ (waiter # NoWaiter /\ waiter.timeout # "None") ~> (waiter = NoWaiter)
    /\ (waiter # NoWaiter /\ \A t \in waiter.snapshot : Done(t))
           ~> (waiter = NoWaiter)

\* wait_for_all has returned on its timeout while no task created so far is
\* done: the tasks it waited for are among them.
C11_Witness ==
    /\ lastCall = Call("wait_for_all", "none", "timeout")
    /\ \A t \in TaskIds : tstate[t] \in {"scheduled", "running"}

\* C12: the done callback of a task runs once and only once, after the task
\* has reached a terminal state, and logs the one outcome that matches this
\* state; a task reaches a terminal state from a non-terminal one and then
\* keeps it.
C12_ObserverRunsOnce ==
    /\ \A t \in TaskIds :
          [](/\ Len(classified[t]) <= 1
             /\ classified[t] # <<>> =>
                   /\ Done(t)
                   /\ tstate[t] = "cancelled" => classified[t] = <<"Cancelled">>
                   /\ tstate[t] = "failed" => classified[t] = <<"Failed">>
                   /\ tstate[t] = "completed" => classified[t] = <<"Completed">>)
    /\ [][\A t \in TaskIds :
            /\ tstate[t] \in Terminal => tstate'[t] = tstate[t]
            /\ (tstate'[t] \in Terminal /\ tstate[t] \notin Terminal) =>
                  tstate[t] \in {"scheduled", "running"}]_vars
    /\ \A t \in TaskIds : Done(t) ~> (Len(classified[t]) = 1)

\* The done callbacks of a cancelled task and of a failed task have run.
C12_Witness ==
    /\ \E t \in TaskIds : tstate[t] = "cancelled" /\ classified[t] = <<"Cancelled">>
    /\ \E t \in TaskIds : tstate[t] = "failed" /\ classified[t] = <<"Failed">>

\* C15: cancel_all requests the cancellation of every registered task that
\* is not done and of no other, and returns at once: no task has changed
\* state and the mapping is as it was. Each of these tasks then ends
\* Cancelled and leaves the mapping.
C15_CancelAll ==
    /\ [][lastCall'.op = "cancel_all" =>
             /\ must_cancel' = must_cancel \cup {t \in Registered : ~Done(t)}
             /\ UNCHANGED <<tasks, tstate, callbacks, classified>>]_vars
    /\ \A t \in TaskIds :
          (lastCall.op = "cancel_all" /\ t \in Registered /\ ~Done(t))
              ~> (tstate[t] = "cancelled" /\ t \notin Registered)

\* cancel_all has just returned with every task registered and running:
\* the cancellation of each is requested and none is cancelled yet.
C15_Witness ==
    /\ lastCall.op = "cancel_all"
    /\ \A t \in TaskIds :
          t \in Registered /\ tstate[t] = "running" /\ t \in must_cancel

\* C17: on a fair loop and with a transport that answers or fails every call
\* in finite time, every batch terminates: fetch_multiple_urls returns, with
\* every unit done and every permit back; a unit that waits for a permit
\* gets one, and a unit that holds one gives it back.
C17_BatchTerminates ==
    /\ <>(/\ returned # None
          /\ \A i \in Units : pc[i] = "done"
          /\ sem_value = SemaphoreValue
          /\ sem_waiters = <<>>)
    /\ \A i \in 1..MaxUrls :
          /\ (i \in Units /\ pc[i] = "waiting") ~> (i \in Holding)
          /\ (i \in Holding) ~> (i \in Units /\ pc[i] = "done")

\* A full batch has returned after one of its units had to wait for a
\* permit and another used all its attempts.
C17_Witness ==
    /\ returned # None
    /\ Len(urls) = MaxUrls
    /\ doneOrder[MaxUrls] = MaxUrls
    /\ calls[MaxUrls] > 0
    /\ \E i \in Units : calls[i] = Retries + 1

\* C20: the step by which wait_for_all returns on its timeout changes no
\* task and no registration: every task it waited for that is not done is
\* in the state it was in, has no cancellation requested that it had not
\* before, and is registered under its name if it was.
C20_TimeoutChangesNothing ==
    [][(/\ waiter # NoWaiter
        /\ waiter' = NoWaiter
        /\ lastCall'.ret = "timeout") =>
            /\ UNCHANGED <<tasks, tstate, tname, must_cancel, callbacks, classified>>
            /\ \A t \in waiter.snapshot :
                  ~Done(t) =>
                      /\ tstate'[t] = tstate[t]
                      /\ t \in must_cancel' => t \in must_cancel
                      /\ t \in Registered =>
                            /\ tname[t] \in DOMAIN tasks'
                            /\ tasks'[tname[t]] = t]_vars

\* wait_for_all has returned on its timeout and every task is running,
\* registered and without a cancellation requested.
C20_Witness ==
    /\ lastCall = Call("wait_for_all", "none", "timeout")
    /\ \A t \in TaskIds :
          /\ tstate[t] = "running"
          /\ t \notin must_cancel
          /\ tname[t] \in DOMAIN tasks
          /\ tasks[tname[t]] = t
=============================================================================
